---------------------------- MODULE Spec2Model ----------------------------
(***************************************************************************)
(* fix_button_config.py: a patch script that reads the target file,        *)
(* replaces the old getButtonConfig signature by the simplified one,       *)
(* renames `email` to `effectiveEmail` inside the getButtonConfig function *)
(* and writes the file back.                                               *)
(*                                                                         *)
(* Text is modelled as a sequence of lexemes.  Every lexeme is the literal *)
(* text it stands for, and the text of a sequence is the concatenation of  *)
(* its lexemes.  The lexemes are cut so that every place a regular         *)
(* expression of the script can match begins and ends at a lexeme border:  *)
(* `email` as a word of its own, `}`, `return finalConfig;`, the two       *)
(* literal halves of the simplified header, runs of white space and the    *)
(* punctuation the look-ahead of the rename tests are lexemes of their own.*)
(***************************************************************************)
EXTENDS Integers, Sequences, FiniteSets

(***************************************************************************)
(* Bounds of the model.                                                    *)
(***************************************************************************)
MaxChunks == 4
MaxSharedChunks == 2
MaxRuns == 2

(***************************************************************************)
(* The literals of the script.                                             *)
(***************************************************************************)
\* old_signature with the regular-expression escapes removed: every
\* metacharacter of the pattern is escaped, so it matches this text only.
old_signature ==
    << "    // UI Configuration (state-aware)\n    ",
       "getButtonConfig: (",
       "\n      liveEmailOrState?: string | { ",
       "email",
       "?",
       ": string; [key: string]: unknown ",
       "}",
       "\n    ",
       ")",
       ": ButtonConfig => {\n      const currentState = get(store);\n      const {\n        ",
       "email",
       ": storeEmail,\n        loading,\n        userExists,\n        hasPasskeys,\n        hasValidPin,\n        fullName,\n        signInState\n      ",
       "}",
       " = currentState;\n\n      // Handle both new string format and legacy object format\n      let ",
       "email",
       ": string;\n      if (typeof liveEmailOrState === 'string') {\n        // New format: string parameter\n        ",
       "email",
       " ",
       "= liveEmailOrState || storeEmail;\n      ",
       "}",
       " else if (liveEmailOrState && typeof liveEmailOrState === 'object') {\n        // Legacy format: object parameter (for tests)\n        ",
       "email",
       " ",
       "= liveEmailOrState.",
       "email",
       " ",
       "||",
       " storeEmail;\n      ",
       "}",
       " else {\n        // No parameter: use store ",
       "email",
       "\n        ",
       "email",
       " ",
       "= storeEmail;\n      ",
       "}" >>

\* new_signature, the replacement text (it holds no backslash, so re.sub
\* inserts it as it is).
new_signature ==
    << "    // UI Configuration (state-aware)\n    ",
       "getButtonConfig: (",
       "email",
       "?",
       ": string): ButtonConfig => {",
       "\n      const currentState = get(store);\n      const {\n        ",
       "email",
       ": storeEmail,\n        loading,\n        userExists,\n        hasPasskeys,\n        hasValidPin,\n        fullName,\n        signInState\n      ",
       "}",
       " = currentState;\n\n      // Use provided ",
       "email",
       " ",
       "or fall back to store ",
       "email",
       "\n      ",
       "const effectiveEmail = ",
       "email",
       " ",
       "||",
       " storeEmail;" >>

\* The start marker of `pattern`: the simplified header.
Header ==
    << "getButtonConfig: (",
       "email",
       "?",
       ": string): ButtonConfig => {" >>

\* The first literal of the end marker of `pattern`.
ReturnStmt == "return finalConfig;"

\* The literal that closes the end marker of `pattern`.
CloseBrace == "}"

\* The replacement of the rename.
Replacement == "effectiveEmail"

\* The text print() writes (the check mark U+2705 is written out).
SuccessMsg == "(U+2705) Fixed getButtonConfig signature and parameter handling"

(***************************************************************************)
(* Character classes of the lexemes, as the regular expressions see them.  *)
(***************************************************************************)
\* \s : lexemes made of white space only.
WhiteSpace ==
    { "\n",
      "\n    ",
      "\n      ",
      "\n        ",
      " " }

\* Lexemes whose first character is a word character (\w).
WordStart ==
    { "Address, ",
      "const effectiveEmail = ",
      "effectiveEmail",
      "email",
      "getButtonConfig: (",
      "in x ",
      "length, ",
      "or fall back to store ",
      "return finalConfig;",
      "trim() + f(" }

\* Lexemes whose last character is a word character (\w).
WordEnd ==
    { " user_",
      "effectiveEmail",
      "email" }

\* The alternatives of the look-ahead (?=\s*[?.!]|\s*\|\||\s*&&|\s*,|\s*;|\s*\)).
\* No other lexeme begins, after white space, with one of them.
TrailingContext == { "?", ".", "!", "||", "&&", ",", ";", ")" }

(***************************************************************************)
(* File contents the script is run on: up to MaxChunks pieces of source    *)
(* text in any order.                                                      *)
(***************************************************************************)
\* The closing of getButtonConfig.
End ==
    << "return finalConfig;",
       "\n    ",
       "}" >>

\* Statements that use `email` in every kind of context.
Stmts ==
    << "\n      if (",
       "!",
       "email",
       ")",
       " { ",
       "return finalConfig;",
       " /* early */ ",
       "}",
       "\n      const a = ",
       "email",
       ".",
       "trim() + f(",
       "email",
       ",",
       " ",
       "email",
       " ",
       "&&",
       " g, ",
       "email",
       "\n        ",
       "||",
       " h, ",
       "email",
       "?",
       ".",
       "length, ",
       "email",
       " ",
       "!",
       "== z);",
       "\n      ",
       "email",
       ";",
       "\n      const o = { ",
       "email",
       ":",
       " user_",
       "email",
       ";",
       " ",
       "email",
       "Address, ",
       "email",
       " ",
       "= w, ",
       "email",
       " ",
       "in x ",
       "}",
       "\n" >>

\* The old signature cut in two.
OldHead == SubSeq(old_signature, 1, 5)

OldRest == SubSeq(old_signature, 6, Len(old_signature))

Chunks == { old_signature, OldHead, OldRest, Header, End, Stmts }

RECURSIVE InputsOf(_)
InputsOf(n) ==
    IF n = 0 THEN { <<>> }
    ELSE LET S == InputsOf(n - 1) IN S \cup { s \o c : s \in S, c \in Chunks }

Inputs == InputsOf(MaxChunks)

SharedInputs == InputsOf(MaxSharedChunks)

(***************************************************************************)
(* The regular-expression substitutions.                                   *)
(***************************************************************************)
Min(S) == CHOOSE x \in S : \A y \in S : x <= y

Max(S) == CHOOSE x \in S : \A y \in S : x >= y

\* A literal pattern matches s at position i.
MatchAt(pat, s, i) ==
    /\ i >= 1
    /\ i + Len(pat) - 1 <= Len(s)
    /\ \A k \in 1..Len(pat) : s[i + k - 1] = pat[k]

\* A slip that anchors the pattern at the start of the text (re.match).
SignatureMatchesAnchored(s, from) ==
    { p \in from..Len(s) : p = 1 /\ MatchAt(old_signature, s, p) }

\* The positions from `from` on at which old_signature matches.
SignatureMatches(s, from) == { p \in from..Len(s) : MatchAt(old_signature, s, p) }

\* re.sub(old_signature, new_signature, .) from position `from` on: every
\* match, leftmost first, none overlapping.
RECURSIVE SubSignature(_, _)
SubSignature(s, from) ==
    LET ms == SignatureMatches(s, from) IN
    IF ms = {} THEN SubSeq(s, from, Len(s))
    ELSE LET p == Min(ms)
         IN  SubSeq(s, from, p - 1) \o new_signature
                 \o SubSignature(s, p + Len(old_signature))

\* A slip that replaces the first match only (count=1).
ReplaceFirstSignatureIn(s) ==
    LET ms == SignatureMatches(s, 1) IN
    IF ms = {} THEN s
    ELSE LET p == Min(ms)
         IN  SubSeq(s, 1, p - 1) \o new_signature
                 \o SubSeq(s, p + Len(old_signature), Len(s))

\* re.sub(old_signature, new_signature, content, flags=re.MULTILINE)
ReplaceSignatureIn(s) == SubSignature(s, 1)

\* return finalConfig;[\s]*\} matches at q: the position of its `}`, else 0.
EndClose(s, q) ==
    IF q >= 1 /\ q <= Len(s) /\ s[q] = ReturnStmt
    THEN LET rs == { r \in (q + 1)..Len(s) : s[r] \notin WhiteSpace }
         IN  IF rs # {} /\ s[Min(rs)] = CloseBrace THEN Min(rs) ELSE 0
    ELSE 0

\* A slip that writes .* for .*? : the match runs to the last end marker.
RegionEndGreedy(s, p) ==
    LET qs == { q \in (p + Len(Header))..Len(s) : EndClose(s, q) # 0 }
    IN  IF qs = {} THEN 0 ELSE EndClose(s, Max(qs))

\* The end of the match of `pattern` that starts with the header at p: .*?
\* stops at the first end marker after the header; 0 when there is none.
RegionEnd(s, p) ==
    LET qs == { q \in (p + Len(Header))..Len(s) : EndClose(s, q) # 0 }
    IN  IF qs = {} THEN 0 ELSE EndClose(s, Min(qs))

\* The positions from `from` on at which `pattern` matches.
RegionStarts(s, from) ==
    { p \in from..Len(s) : MatchAt(Header, s, p) /\ RegionEnd(s, p) # 0 }

\* \bemail\b : the lexeme at k is a word of its own.
IsWholeWord(b, k) ==
    /\ k = 1 \/ b[k - 1] \notin WordEnd
    /\ k = Len(b) \/ b[k + 1] \notin WordStart

\* A slip that leaves the \s* out of the look-ahead.
FollowedByContextTight(b, k) ==
    k < Len(b) /\ b[k + 1] \in TrailingContext

\* The look-ahead: white space, then one of the trailing contexts.
FollowedByContext(b, k) ==
    \E m \in (k + 1)..Len(b) :
        /\ b[m] \in TrailingContext
        /\ \A j \in (k + 1)..(m - 1) : b[j] \in WhiteSpace

\* The inner re.sub of replace_email_in_function decides on the lexeme at k.
Renamed(b, k) ==
    IF b[k] = "email" /\ IsWholeWord(b, k) /\ FollowedByContext(b, k)
    THEN Replacement ELSE b[k]

\* replace_email_in_function(match), function_body being match.group(0).
replace_email_in_function(function_body) ==
    [ k \in 1..Len(function_body) |-> Renamed(function_body, k) ]

\* re.sub(pattern, replace_email_in_function, .) from position `from` on.
RECURSIVE SubRegions(_, _)
SubRegions(s, from) ==
    LET ps == RegionStarts(s, from) IN
    IF ps = {} THEN SubSeq(s, from, Len(s))
    ELSE LET p == Min(ps)
             r == RegionEnd(s, p)
         IN  SubSeq(s, from, p - 1)
                 \o replace_email_in_function(SubSeq(s, p, r))
                 \o SubRegions(s, r + 1)

\* A slip that renames in the whole text instead of the matched regions.
RenameEverywhereIn(s) == replace_email_in_function(s)

\* A slip that rewrites the first region only (count=1).
ReplaceFirstRegionIn(s) ==
    LET ps == RegionStarts(s, 1) IN
    IF ps = {} THEN s
    ELSE LET p == Min(ps)
             r == RegionEnd(s, p)
         IN  SubSeq(s, 1, p - 1)
                 \o replace_email_in_function(SubSeq(s, p, r))
                 \o SubSeq(s, r + 1, Len(s))

\* re.sub(pattern, replace_email_in_function, new_content, flags=re.DOTALL)
ReplaceIdentifiersIn(s) == SubRegions(s, 1)

(***************************************************************************)
(* State.                                                                  *)
(***************************************************************************)
\* A name of the script that is not bound yet.
Unbound == << "<unbound>" >>

VARIABLES
    file,         \* the text of src/stores/auth-store.ts on disk
    content,      \* the script's `content`
    sig_content,  \* the script's `new_content` as bound on line 53
    new_content,  \* the script's `new_content` as bound on line 67
    out,          \* what the run has printed on standard output
    pc,           \* where the run is
    run,          \* how many times the script has been started
    disk0,        \* history: the text on disk when this run was started
    wAt,          \* the other writer: where the run was when it wrote
    wtext         \* the other writer: what it wrote

vars == << file, content, sig_content, new_content, out, pc, run, disk0, wAt, wtext >>

Init ==
    /\ file \in Inputs
    /\ content = Unbound
    /\ sig_content = Unbound
    /\ new_content = Unbound
    /\ out = <<>>
    /\ pc = "load"
    /\ run = 1
    /\ disk0 = file
    /\ wAt = "never"
    /\ wtext = <<>>

InitShared ==
    /\ Init
    /\ file \in SharedInputs

(***************************************************************************)
(* The steps of a run.                                                     *)
(***************************************************************************)
\* with open(...,'r') as f: content = f.read()
Load ==
    /\ pc = "load"
    /\ content' = file
    /\ pc' = "sig"
    /\ UNCHANGED << file, sig_content, new_content, out, run, disk0, wAt, wtext >>

\* A slip that swallows the error of the read and goes on with no text.
LoadFailSwallowed ==
    /\ pc = "load"
    /\ content' = <<>>
    /\ pc' = "sig"
    /\ UNCHANGED << file, sig_content, new_content, out, run, disk0, wAt, wtext >>

\* open or read raises: the exception is not caught and the run ends.
LoadFail ==
    /\ pc = "load"
    /\ pc' = "load_failed"
    /\ UNCHANGED << file, content, sig_content, new_content, out, run, disk0, wAt, wtext >>

\* new_content = re.sub(old_signature, new_signature, content, flags=re.MULTILINE)
ReplaceSignature ==
    /\ pc = "sig"
    /\ sig_content' = ReplaceSignatureIn(content)
    /\ pc' = "ident"
    /\ UNCHANGED << file, content, new_content, out, run, disk0, wAt, wtext >>

\* new_content = re.sub(pattern, replace_email_in_function, new_content, flags=re.DOTALL)
ReplaceIdentifierReferences ==
    /\ pc = "ident"
    /\ new_content' = ReplaceIdentifiersIn(sig_content)
    /\ pc' = "save"
    /\ UNCHANGED << file, content, sig_content, out, run, disk0, wAt, wtext >>

\* A slip that writes only when the file still holds what was read.
SaveIfUnchanged ==
    /\ pc = "save"
    /\ file' = IF file = content THEN new_content ELSE file
    /\ pc' = "report"
    /\ UNCHANGED << content, sig_content, new_content, out, run, disk0, wAt, wtext >>

\* with open(...,'w') as f: f.write(new_content)
Save ==
    /\ pc = "save"
    /\ file' = new_content
    /\ pc' = "report"
    /\ UNCHANGED << content, sig_content, new_content, out, run, disk0, wAt, wtext >>

\* The write raises: open fails and leaves the file alone, or open has
\* truncated the file and write fails before or part of the way through.
SaveFail ==
    /\ pc = "save"
    /\ file' \in { file, <<>>, SubSeq(new_content, 1, Len(new_content) \div 2) }
    /\ pc' = "save_failed"
    /\ UNCHANGED << content, sig_content, new_content, out, run, disk0, wAt, wtext >>

\* A slip that reports only when the text was changed.
ReportIfChanged ==
    /\ pc = "report"
    /\ out' = IF new_content # content THEN Append(out, SuccessMsg) ELSE out
    /\ pc' = "done"
    /\ UNCHANGED << file, content, sig_content, new_content, run, disk0, wAt, wtext >>

\* print("... Fixed getButtonConfig signature and parameter handling")
Report ==
    /\ pc = "report"
    /\ out' = Append(out, SuccessMsg)
    /\ pc' = "done"
    /\ UNCHANGED << file, content, sig_content, new_content, run, disk0, wAt, wtext >>

\* The script is started again after a run that completed.
Rerun ==
    /\ pc = "done"
    /\ run < MaxRuns
    /\ run' = run + 1
    /\ disk0' = file
    /\ content' = Unbound
    /\ sig_content' = Unbound
    /\ new_content' = Unbound
    /\ out' = <<>>
    /\ pc' = "load"
    /\ UNCHANGED << file, wAt, wtext >>

\* Another writer replaces the text of the file, once, at any time.
OtherWriter ==
    /\ wAt = "never"
    /\ \E t \in Chunks :
        /\ t # file
        /\ file' = t
        /\ wtext' = t
    /\ wAt' = pc
    /\ UNCHANGED << content, sig_content, new_content, out, pc, run, disk0 >>

Next ==
    \/ Load
    \/ LoadFail
    \/ ReplaceSignature
    \/ ReplaceIdentifierReferences
    \/ Save
    \/ SaveFail
    \/ Report
    \/ Rerun

Spec == Init /\ [][Next]_vars

NextShared ==
    \/ Load
    \/ LoadFail
    \/ ReplaceSignature
    \/ ReplaceIdentifierReferences
    \/ Save
    \/ SaveFail
    \/ Report
    \/ OtherWriter

SpecShared == InitShared /\ [][NextShared]_vars

TypeOK ==
    /\ pc \in { "load", "load_failed", "sig", "ident", "save", "save_failed", "report", "done" }
    /\ run \in 1..MaxRuns
    /\ Len(out) <= 1

(***************************************************************************)
(* Vocabulary of the properties.                                           *)
(***************************************************************************)
\* The run has written the file and not failed.
Finished == pc \in { "report", "done" }

\* Both substitutions have run.
Substituted == new_content # Unbound

Occurs(pat, s) == \E i \in 1..Len(s) : MatchAt(pat, s, i)

Count(pat, s) == Cardinality({ i \in 1..Len(s) : MatchAt(pat, s, i) })

\* The fallback line of the simplified header.
FallbackLine == << "const effectiveEmail = ", "email", " ", "||", " storeEmail;" >>

\* An end marker, `return finalConfig;` white space `}`, begins at q.
EndMarkerAt(s, q) == EndClose(s, q) # 0

\* A start marker at p with an end marker somewhere after it.
PairAt(s, p) ==
    /\ MatchAt(Header, s, p)
    /\ \E q \in (p + Len(Header))..Len(s) : EndMarkerAt(s, q)

HasPair(s) == \E p \in 1..Len(s) : PairAt(s, p)

\* The positions that lie in a bounded region: from a start marker at p up
\* to the `}` of the first end marker after it.
Bounded(s) ==
    LET ends  == { q \in 1..Len(s) : EndMarkerAt(s, q) }
        heads == { p \in 1..Len(s) : MatchAt(Header, s, p) }
        after(p) == { q \in ends : q >= p + Len(Header) }
    IN  UNION { p..EndClose(s, Min(after(p))) : p \in { h \in heads : after(h) # {} } }

\* The lexeme that follows position i after optional white space ("" at
\* the end of the text).
TextAfter(s, i) ==
    LET rs == { r \in (i + 1)..Len(s) : s[r] \notin WhiteSpace }
    IN  IF rs = {} THEN "" ELSE s[Min(rs)]

\* `email` at i is not part of a longer identifier.
WordOfItsOwn(s, i) ==
    /\ s[i] = "email"
    /\ i > 1 => s[i - 1] \notin WordEnd
    /\ i < Len(s) => s[i + 1] \notin WordStart

\* The trailing contexts the specification lists.
ListedContexts == { ".", "||", "&&", ",", ";", ")" }

\* The trailing contexts of the look-ahead.
LookaheadContexts == ListedContexts \cup { "?", "!" }

\* The rename changed the lexeme at i.
ChangedAt(i) == new_content[i] # sig_content[i]

\* Within the regions, exactly the occurrences followed by one of ctx are
\* renamed.
RenamesExactly(ctx) ==
    /\ Len(new_content) = Len(sig_content)
    /\ \A i \in Bounded(sig_content) :
          new_content[i] =
              IF WordOfItsOwn(sig_content, i) /\ TextAfter(sig_content, i) \in ctx
              THEN "effectiveEmail" ELSE sig_content[i]

(***************************************************************************)
(* C1.  The written text of a file that held the old signature contains    *)
(* the simplified header line and the fallback line as new_signature has   *)
(* them.  The code breaks this: the rename rewrites both lines.            *)
(***************************************************************************)
C1_NewHeaderVerbatim ==
    (Finished /\ Occurs(old_signature, content)) =>
        /\ Occurs(Header, file)
        /\ Occurs(FallbackLine, file)

(***************************************************************************)
(* C2.  The text written by a complete run contains no match of the old    *)
(* signature pattern, however many matches the input had.                  *)
(***************************************************************************)
C2_NoOldSignatureRemains ==
    Finished => ~Occurs(old_signature, file)

C2_Witness ==
    /\ pc = "done"
    /\ Count(old_signature, content) >= 2
    /\ Occurs(new_signature, sig_content)

(***************************************************************************)
(* C3.  A second complete run on the output of a first complete run writes *)
(* that output again: its signature replacement and its rename change      *)
(* nothing.                                                                *)
(***************************************************************************)
C3_SecondRunIdempotent ==
    (run >= 2 /\ Finished) =>
        /\ content = disk0
        /\ sig_content = content
        /\ new_content = sig_content
        /\ file = disk0

C3_Witness ==
    /\ run = 2
    /\ pc = "done"
    /\ \E i \in 1..Len(disk0) : disk0[i] = "effectiveEmail"
    /\ Occurs(FallbackLine, disk0)

(***************************************************************************)
(* C4 as amended.  For an input with no match of the old signature pattern *)
(* and no simplified header followed later by an end marker, both          *)
(* substitutions are no-ops and the text written equals the text read.     *)
(***************************************************************************)
C4_NoMatchNoPairUnchanged ==
    (Finished /\ ~Occurs(old_signature, content) /\ ~HasPair(content)) =>
        /\ sig_content = content
        /\ new_content = content
        /\ file = content

C4_Witness ==
    /\ pc = "done"
    /\ ~Occurs(old_signature, content)
    /\ ~HasPair(content)
    /\ Occurs(Header, content)
    /\ \E i \in 1..Len(content) : WordOfItsOwn(content, i) /\ TextAfter(content, i) = ";"
    /\ file = content

\* C4 as stated: no match of the old signature pattern alone makes the run
\* write back what it read.
C4_NoMatchUnchanged ==
    (Finished /\ ~Occurs(old_signature, content)) =>
        /\ sig_content = content
        /\ new_content = content
        /\ file = content

(***************************************************************************)
(* C5 as amended.  Within a bounded region the rename turns `email` into   *)
(* `effectiveEmail` exactly at the whole-word occurrences followed, after  *)
(* optional white space, by one of . || && , ; ) ? ! and leaves every      *)
(* other occurrence in the region as it is.                                *)
(***************************************************************************)
C5_RenamesBeforeLookaheadContexts ==
    Substituted => RenamesExactly(LookaheadContexts)

C5_Witness ==
    /\ Substituted
    /\ \E i, j, k \in Bounded(sig_content) :
          /\ WordOfItsOwn(sig_content, i)
          /\ TextAfter(sig_content, i) = "!"
          /\ new_content[i] = "effectiveEmail"
          /\ WordOfItsOwn(sig_content, j)
          /\ TextAfter(sig_content, j) = ":"
          /\ new_content[j] = "email"
          /\ sig_content[k] = "email"
          /\ ~WordOfItsOwn(sig_content, k)
          /\ TextAfter(sig_content, k) = ";"
          /\ new_content[k] = "email"

\* C5 as stated: only the six listed contexts are renamed, `email?` is not.
C5_RenamesBeforeListedContexts ==
    Substituted => RenamesExactly(ListedContexts)

(***************************************************************************)
(* C6.  The rename changes nothing outside the bounded regions: before a   *)
(* start marker, after the end marker that closes a region, and in a text  *)
(* with no start-marker/end-marker pair.                                   *)
(***************************************************************************)
C6_NothingRenamedOutsideRegions ==
    Substituted =>
        /\ Len(new_content) = Len(sig_content)
        /\ \A i \in (1..Len(sig_content)) \ Bounded(sig_content) :
              new_content[i] = sig_content[i]
        /\ ~HasPair(sig_content) => new_content = sig_content

C6_Witness ==
    /\ Substituted
    /\ \E j \in Bounded(sig_content), i, k \in (1..Len(sig_content)) \ Bounded(sig_content) :
          /\ i < j /\ j < k
          /\ WordOfItsOwn(sig_content, i)
          /\ TextAfter(sig_content, i) = "."
          /\ new_content[i] = "email"
          /\ ChangedAt(j)
          /\ WordOfItsOwn(sig_content, k)
          /\ TextAfter(sig_content, k) = "."
          /\ new_content[k] = "email"

(***************************************************************************)
(* C7 as amended.  The output is the input with every match of the old     *)
(* signature pattern replaced by the new signature and every bounded       *)
(* region rewritten; a step whose pattern does not match leaves the text   *)
(* unchanged.                                                              *)
(***************************************************************************)
C7_EveryMatchReplaced ==
    Substituted =>
        /\ Len(sig_content) = Len(content)
              - Count(old_signature, content) * (Len(old_signature) - Len(new_signature))
        /\ Count(new_signature, sig_content)
              = Count(new_signature, content) + Count(old_signature, content)
        /\ ~Occurs(old_signature, content) => sig_content = content
        /\ \A p \in 1..Len(sig_content) :
              PairAt(sig_content, p) => new_content[p + 1] = "effectiveEmail"
        /\ ~HasPair(sig_content) => new_content = sig_content

C7_Witness ==
    /\ Substituted
    /\ Count(old_signature, content) >= 2
    /\ Count(new_signature, sig_content) >= 2
    /\ \E i, j \in 1..Len(sig_content) :
          /\ i < j
          /\ ChangedAt(i)
          /\ ChangedAt(j)
          /\ \E q \in i..j : EndMarkerAt(sig_content, q)

\* C7 as stated: only the first match of the old signature pattern is
\* replaced and at most one bounded region is rewritten.
C7_FirstMatchOnly ==
    Substituted =>
        /\ Count(old_signature, sig_content)
              = Max({ 0, Count(old_signature, content) - 1 })
        /\ \A i, j \in 1..Len(sig_content) :
              (i < j /\ ChangedAt(i) /\ ChangedAt(j)) =>
                  ~ \E q \in i..j : EndMarkerAt(sig_content, q)

(***************************************************************************)
(* C8.  A run in which Load and Save succeed ends with exactly one success *)
(* message, the same whether both substitutions, one or none matched.      *)
(***************************************************************************)
C8_OneSuccessMessage ==
    /\ pc = "done" => out = << SuccessMsg >>
    /\ pc = "report" => out = <<>>

C8_Witness ==
    /\ pc = "done"
    /\ content # <<>>
    /\ new_content = content
    /\ file = disk0
    /\ out = << SuccessMsg >>

(***************************************************************************)
(* C9.  An I/O error ends the run where it occurs.  After a failed Load no *)
(* substitution has run, the file is as it was and nothing is printed;     *)
(* after a failed Save nothing is printed.  The message is printed only    *)
(* after Save has written, and Save is attempted only after Load has read. *)
(***************************************************************************)
C9_IOErrorAborts ==
    /\ pc = "load_failed" =>
          /\ content = Unbound
          /\ sig_content = Unbound
          /\ new_content = Unbound
          /\ file = disk0
          /\ out = <<>>
    /\ pc = "save_failed" => out = <<>>
    /\ out # <<>> => (pc = "done" /\ file = new_content)
    /\ pc \in { "save", "save_failed", "report", "done" } => content = disk0

C9_Witness ==
    /\ pc = "load_failed"
    /\ Occurs(old_signature, file)
    /\ run = 1

(***************************************************************************)
(* C10.  When another writer replaces the file between Load and Save, Save *)
(* overwrites it with the transformation of the text read at Load: the     *)
(* other writer's text is lost and the file does not depend on it.         *)
(***************************************************************************)
C10_OtherWriterOverwritten ==
    (Finished /\ wAt \in { "sig", "ident", "save" }) =>
        /\ content = disk0
        /\ file = ReplaceIdentifiersIn(ReplaceSignatureIn(disk0))

C10_Witness ==
    /\ pc = "done"
    /\ wAt = "save"
    /\ wtext # disk0
    /\ wtext # file
    /\ file # disk0
=============================================================================
